---- MODULE Spec2Model ----
(***************************************************************************)
(* The multiplayer snake client of src/src/components/GameCanvas.tsx and   *)
(* the screen state machine of src/src/App.tsx as a state machine.         *)
(*                                                                         *)
(* Numbers.  JavaScript numbers are modelled in fixed point: lengths and   *)
(* coordinates in tenths of a world unit, scores in tenths of a point,     *)
(* cosines in thousandths, wall-clock time in milliseconds.  A JavaScript  *)
(* null/undefined is the empty sequence <<>> and a present value v is <<v>>.*)
(*                                                                         *)
(* Left out: rendering, the boost particles, the colours and the score     *)
(* shown on screen (setScore), none of which the simulation reads.         *)
(*                                                                         *)
(* An await splits a function into steps: the step that sends the remote   *)
(* call and the step that resumes when it returns.  Calls in flight are    *)
(* counted, or kept in bags when the resumed code reads a captured value.  *)
(***************************************************************************)
EXTENDS Integers, Sequences, FiniteSets, Bags, TLC

\* ------------------------------------------------------------ constants
WORLD_WIDTH == 5000
WORLD_HEIGHT == 5000
INITIAL_SNAKE_LENGTH == 22
SEGMENT_SPACING == 6
BASE_SPEED == 3
BOOST_SPEED == 6
\* the clamp inset of updateGame (50 world units)
INSET == 50
\* the minimum interval between pushes, in ms
SYNC_INTERVAL == 100
\* the food population loadFood tops up to
MIN_FOOD == 200
\* the id the remote store gives the local player
LocalId == 1

\* ------------------------------------------------------------ bounds
\* frames run per session
MaxTicks == 3
\* frames run per session when the inputs of a frame range widely
MaxMoveTicks == 2
\* roster (and leaderboard) queries in flight at a time
MaxPolls == 1

\* ------------------------------------------------------------ arithmetic
\* n world units (or points of score) in tenths
U(n) == n * 10

Abs(a) == IF a < 0 THEN 0 - a ELSE a

Max(a, b) == IF a > b THEN a ELSE b

Min(a, b) == IF a < b THEN a ELSE b

\* a / b rounded to the nearest integer, b > 0
RoundDiv(a, b) == (2 * a + b) \div (2 * b)

RECURSIVE SqrtSearch(_, _, _)
SqrtSearch(n, lo, hi) ==
  IF lo >= hi THEN lo
  ELSE LET mid == (lo + hi + 1) \div 2
       IN IF mid * mid <= n THEN SqrtSearch(n, mid, hi)
          ELSE SqrtSearch(n, lo, mid - 1)

\* Math.sqrt, rounded to the nearest integer
Sqrt(n) ==
  LET r == SqrtSearch(n, 0, 46340)
  IN IF n - r * r <= r THEN r ELSE r + 1

\* Math.sqrt(dx * dx + dy * dy) in tenths; long vectors are measured in
\* whole units so that the squares stay inside 32 bits
Hypot(dx, dy) ==
  IF Abs(dx) <= 30000 /\ Abs(dy) <= 30000
  THEN Sqrt(dx * dx + dy * dy)
  ELSE 10 * Sqrt((dx \div 10) * (dx \div 10) + (dy \div 10) * (dy \div 10))

\* dist > limit for dist = Math.sqrt(dx*dx + dy*dy), limit in tenths, exactly
Farther(dx, dy, limit) ==
  \/ Abs(dx) > limit
  \/ Abs(dy) > limit
  \/ dx * dx + dy * dy > limit * limit

\* the overlap test with <= for <
CloserOrTouching(dx, dy, limM, k) ==
  LET f == 1000 \div k
  IN IF Abs(dx) * f > limM \/ Abs(dy) * f > limM THEN FALSE
     ELSE f * f * (dx * dx + dy * dy) <= limM * limM

\* dist < limM for dist = Math.sqrt(dx*dx + dy*dy), exactly: dx and dy in
\* 1/k of a unit (k divides 1000), limM in thousandths of a unit
CloserAt(dx, dy, limM, k) ==
  LET f == 1000 \div k
  IN IF Abs(dx) * f >= limM \/ Abs(dy) * f >= limM THEN FALSE
     ELSE f * f * (dx * dx + dy * dy) < limM * limM

\* dist < limM for dx, dy in tenths and limM in thousandths of a unit
Closer(dx, dy, limM) == CloserAt(dx, dy, limM, 10)

\* ------------------------------------------------------------ updateGame
\* Math.cos(Math.atan2(dy, dx)) and Math.sin of it, in thousandths, for the
\* pointer offset v = <<dx, dy>> from the canvas centre; atan2(0, 0) is 0
CosM(v) ==
  IF v[1] = 0 /\ v[2] = 0 THEN 1000
  ELSE RoundDiv(1000 * v[1], Sqrt(v[1] * v[1] + v[2] * v[2]))

SinM(v) ==
  IF v[1] = 0 /\ v[2] = 0 THEN 0
  ELSE RoundDiv(1000 * v[2], Sqrt(v[1] * v[1] + v[2] * v[2]))

\* speed = (boosting ? BOOST_SPEED : BASE_SPEED) * deltaTime in tenths, with
\* deltaTime = gap / 16.67 for gap = now - lastUpdateRef.current in ms
Speed(boost, gap) ==
  RoundDiv((IF boost THEN BOOST_SPEED ELSE BASE_SPEED) * gap * 1000, 1667)

\* the clamp without its lower bound
ClampNoFloor(v, hi) == Min(U(hi - INSET), v)

\* Math.max(50, Math.min(hi - 50, v)), v and the result in tenths
Clamp(v, hi) == Max(U(INSET), Min(U(hi - INSET), v))

\* the loop body without the pull: the old point is pushed as it is
PullKeepsOld(prev, curr) == curr

\* the point the loop body pushes for prev (a new segment) and curr (an old one)
Pull(prev, curr) ==
  LET dx == prev[1] - curr[1]
      dy == prev[2] - curr[2]
      dist == Hypot(dx, dy)
  IN IF Farther(dx, dy, U(SEGMENT_SPACING))
     THEN << prev[1] - RoundDiv(dx * U(SEGMENT_SPACING), dist),
             prev[2] - RoundDiv(dy * U(SEGMENT_SPACING), dist) >>
     ELSE curr

\* the for loop ending one iteration early
RECURSIVE RebuildShort(_, _, _)
RebuildShort(new, old, i) ==
  IF i > Len(old) - 2 THEN new
  ELSE RebuildShort(Append(new, Pull(new[i], old[i])), old, i + 1)

\* the for loop of the chain rebuild from index i (1-based) on: prev is
\* newSegments[i], curr is segments[i], and the result becomes segment i + 1
RECURSIVE Rebuild(_, _, _)
Rebuild(new, old, i) ==
  IF i > Len(old) - 1 THEN new
  ELSE Rebuild(Append(new, Pull(new[i], old[i])), old, i + 1)

\* the boost cost taken at any score and without the floor
DecayNoFloor(score, boost, roll) == IF boost /\ roll THEN score - 1 ELSE score

\* the boost cost: score = Math.max(INITIAL_SNAKE_LENGTH, score - 0.1) when
\* boosting above the initial length and Math.random() < 0.3 (roll)
Decay(score, boost, roll) ==
  IF boost /\ score > U(INITIAL_SNAKE_LENGTH) /\ roll
  THEN Max(U(INITIAL_SNAKE_LENGTH), score - 1)
  ELSE score

\* the local record after heading, boost cost, movement, clamp and rebuild
Move(p, v, boost, gap, roll) ==
  LET speed == Speed(boost, gap)
      nx == Clamp(p.position_x + RoundDiv(CosM(v) * speed, 1000), WORLD_WIDTH)
      ny == Clamp(p.position_y + RoundDiv(SinM(v) * speed, 1000), WORLD_HEIGHT)
  IN [p EXCEPT !.angle = << CosM(v), SinM(v) >>,
               !.score = Decay(p.score, boost, roll),
               !.position_x = nx,
               !.position_y = ny,
               !.segments = Rebuild(<< << nx, ny >> >>, p.segments, 1)]

\* headRadius = 10 + score * 0.1, in thousandths of a unit
HeadRadiusM(score) == 10000 + 10 * score

\* otherRadius = 8 + other.score * 0.08, in thousandths of a unit
OtherRadiusM(score) == 8000 + 8 * score

\* checkFoodCollision: the ids of the cached food the head overlaps
Eaten(p, fd) ==
  { id \in DOMAIN fd :
      Closer(p.position_x - fd[id].position_x, p.position_y - fd[id].position_y,
             HeadRadiusM(p.score) + 5000) }

RECURSIVE SumValue(_, _)
SumValue(fd, ids) ==
  IF ids = {} THEN 0
  ELSE LET id == CHOOSE i \in ids : TRUE
       IN fd[id].value + SumValue(fd, ids \ {id})

\* the score after checkFoodCollision: score += food.value for each overlap
Feed(p, fd) == [p EXCEPT !.score = @ + U(SumValue(fd, Eaten(p, fd)))]

\* the first loop scanning from the head segment (index 0) on
HitOthersWithHead(p, oth) ==
  { id \in DOMAIN oth :
      \E i \in 1..Len(oth[id].segments) :
        Closer(p.position_x - oth[id].segments[i][1],
               p.position_y - oth[id].segments[i][2],
               HeadRadiusM(p.score) + OtherRadiusM(oth[id].score)) }

\* checkPlayerCollision, first loop: the cached players for which the inner
\* for loop reaches handleDeath (segment index >= 1, i.e. 2.. here)
HitOthers(p, oth) ==
  { id \in DOMAIN oth :
      \E i \in 2..Len(oth[id].segments) :
        Closer(p.position_x - oth[id].segments[i][1],
               p.position_y - oth[id].segments[i][2],
               HeadRadiusM(p.score) + OtherRadiusM(oth[id].score)) }

\* checkPlayerCollision, second loop: own segments from index 3 (4 here)
HitSelf(p) ==
  \E i \in 4..Len(p.segments) :
    Closer(p.position_x - p.segments[i][1], p.position_y - p.segments[i][2],
           HeadRadiusM(p.score))

\* the number of times one checkPlayerCollision calls handleDeath: the
\* return inside the forEach callback ends that callback only
DeathCalls(p, oth) ==
  Cardinality(HitOthers(p, oth)) + (IF HitSelf(p) THEN 1 ELSE 0)

\* now - lastSync > 100, where lastSync is never set before the first push:
\* now - undefined is NaN and NaN > 100 is false
ShouldPush(p, t) ==
  IF p.lastSync = <<>> THEN FALSE ELSE t - p.lastSync[1] > SYNC_INTERVAL

\* ------------------------------------------------------------ initializeGame
\* Math.random() takes the values r / RandomSteps for r in 0..RandomSteps - 1
RandomSteps == 40000

\* Math.random() * (size - 1000) + 500 in tenths, for Math.random() = r / RandomSteps
SpawnPoint(r, size) == U(500) + (r * U(size - 1000)) \div RandomSteps

\* the chain laid out ahead of the spawn point instead of behind it
InitialSegmentsAhead(sx, sy) ==
  [i \in 1..INITIAL_SNAKE_LENGTH |-> << sx + (i - 1) * U(SEGMENT_SPACING), sy >>]

\* the segments built before the insert: segment i at (startX - i * spacing, startY)
InitialSegments(sx, sy) ==
  [i \in 1..INITIAL_SNAKE_LENGTH |-> << sx - (i - 1) * U(SEGMENT_SPACING), sy >>]

\* the row the insert returns
NewPlayer(sx, sy) ==
  [id |-> LocalId, score |-> U(INITIAL_SNAKE_LENGTH),
   position_x |-> sx, position_y |-> sy, angle |-> << 1000, 0 >>,
   segments |-> InitialSegments(sx, sy), is_alive |-> TRUE, lastSync |-> <<>>]

\* ------------------------------------------------------------ state
VARIABLES
  start,         \* << startX, startY >> drawn by initializeGame
  initPc,        \* where initializeGame is: insert, aborted, loadFood, spawnFood, started
  playerId,      \* playerIdRef.current, 0 for null
  player,        \* playerRef.current
  food,          \* foodRef.current: id -> food row
  otherPlayers,  \* otherPlayersRef.current: id -> player row
  leaderboard,   \* the leaderboard state: ids by descending score
  mounted,       \* the component is mounted (canvasRef.current is set)
  frameRef,      \* animationFrameRef.current is set
  rafPending,    \* a requested animation frame has neither run nor been cancelled
  now,           \* Date.now() as last read
  lastUpdate,    \* lastUpdateRef.current
  subscribed,    \* the game-changes channel is open
  timersOn,      \* the two setInterval timers of subscribeToChanges exist
  rosterCalls,   \* loadOtherPlayers queries in flight
  boardCalls,    \* updateLeaderboard queries in flight
  foodDeletes,   \* bag of food ids: checkFoodCollision callbacks awaiting their delete
  spawnCalls,    \* spawnFood(1) inserts in flight
  spawned,       \* rows spawnFood(1) has added so far (they get fresh ids)
  deathDelete,   \* bag of finalScore: handleDeath calls awaiting the player delete
  deathInsert,   \* bag of finalScore: handleDeath calls awaiting the food insert
  cleanupCalls,  \* cleanup calls awaiting their player delete
  pushCalls,     \* bag of now: updateGame calls awaiting their player update
  ticks,         \* gameLoop runs so far
  scored,        \* bag of food ids: the times the score was raised for each
  selfDeletes,   \* deletes of the local player row issued so far
  pushes,        \* updates of the local player row issued so far
  deathBatches,  \* batch inserts of food issued by handleDeath so far
  deathFood,     \* food rows in those batches
  lastBatch,     \* the rows of the latest of those batches
  gameOverCalls, \* onGameOver calls so far
  gameState,     \* App: start, playing, gameover
  finalScore     \* App: finalScore

vars ==
  << start, initPc, playerId, player, food, otherPlayers, leaderboard, mounted,
     frameRef, rafPending, now, lastUpdate, subscribed, timersOn, rosterCalls,
     boardCalls, foodDeletes, spawnCalls, spawned, deathDelete, deathInsert,
     cleanupCalls, pushCalls, ticks, scored, selfDeletes, pushes, deathBatches, deathFood,
     lastBatch, gameOverCalls, gameState, finalScore >>

\* the empty Map
NoRows == [id \in {} |-> 0]

\* Map.set for every row of rows (a function id -> row)
SetAll(map, rows) ==
  [id \in DOMAIN map \cup DOMAIN rows |->
     IF id \in DOMAIN rows THEN rows[id] ELSE map[id]]

\* Map.delete
Remove(map, id) == [i \in DOMAIN map \ {id} |-> map[i]]

\* n more copies of x in bag B
AddCopies(B, x, n) == IF n = 0 THEN B ELSE B (+) [e \in {x} |-> n]

\* ------------------------------------------------------------ inputs
\* spawn points of a session (startX, startY in [500, 4500))
StartPoints ==
  { << SpawnPoint(RandomSteps \div 2, WORLD_WIDTH),
       SpawnPoint(RandomSteps \div 2, WORLD_HEIGHT) >> }

\* pointer offsets from the canvas centre
Mice == { << 1, 0 >>, << -1, 0 >> }

\* ms between two reads of Date.now() by updateGame
Gaps == { 17 }

\* food rows of the remote store near the spawn point
FoodRow(id) ==
  [id |-> id, position_x |-> U(2500) + 150 * id, position_y |-> U(2500),
   value |-> 1]

FoodIds == { 1, 2 }

\* what select('*') on food can return: null, or the rows
Snapshots == { <<>>, << NoRows >>, << [id \in FoodIds |-> FoodRow(id)] >> }

\* a row of the players table: a chain hanging north of a point 20 units
\* east of the spawn point
PlayerRow(id, alive) ==
  [id |-> id, score |-> U(INITIAL_SNAKE_LENGTH), is_alive |-> alive,
   segments |-> [i \in 1..3 |-> << U(2520), U(2500) - (3 - i) * U(SEGMENT_SPACING) >>]]

PlayerIds == { LocalId, 2 }

PlayerRows == { PlayerRow(id, alive) : id \in PlayerIds, alive \in BOOLEAN }

\* contents of the players table a query can see
Tables == { {}, { PlayerRow(LocalId, TRUE), PlayerRow(2, TRUE) },
            { PlayerRow(LocalId, TRUE), PlayerRow(2, FALSE) } }

\* a row of the players table whose head lies 20 units east of the spawn
\* point and whose body trails further east, 15 units apart
HeadOnRow(id) ==
  [id |-> id, score |-> U(INITIAL_SNAKE_LENGTH), is_alive |-> TRUE,
   segments |-> [i \in 1..3 |-> << U(2520) + (i - 1) * U(15), U(2500) >>]]

\* the rows the feed delivers while the collision with players is examined
HitRows == { PlayerRow(2, TRUE), HeadOnRow(3) }

\* food rows around the reach (17.2 units at score 22) of a head that has
\* moved 3.1 units east of the spawn point: at 17.2 and at 17.1 units due
\* east, and at (10, 14) and (10, -13.9) units
EatRows ==
  [id \in 1..4 |->
     [id |-> id, value |-> 1,
      position_x |-> U(2500) + 31 + (IF id = 1 THEN 172 ELSE IF id = 2 THEN 171 ELSE 100),
      position_y |-> U(2500) + (IF id = 3 THEN 140 ELSE IF id = 4 THEN 0 - 139 ELSE 0)]]

\* the food snapshot holding those rows
EatSnapshots == { << EatRows >> }

\* frame gaps next to the nominal frame duration of 16.67 ms
StraightGaps == { 16, 17 }

\* (Math.random() - 0.5) * 20 in tenths, for odd and for even segments
Jitters == { << -100, 99 >>, << 99, -100 >> }

\* ------------------------------------------------------------ the frame
\* updateGame up to its await, reading food cache fd, with the pointer at v,
\* the boost flag, gap ms since the last frame and the Math.random() < 0.3 roll
UpdateGame(fd, v, boost, gap, roll) ==
  LET t == now + gap
      moved == Move(player[1], v, boost, t - lastUpdate, roll)
      eaten == Eaten(moved, fd)
      fed == Feed(moved, fd)
      calls == DeathCalls(fed, otherPlayers)
  IN /\ now' = t
     /\ IF player = <<>> \/ playerId = 0
        THEN UNCHANGED << lastUpdate, player, foodDeletes, scored, deathDelete,
                          selfDeletes, pushes, pushCalls >>
        ELSE IF ~mounted
        THEN /\ lastUpdate' = t
             /\ UNCHANGED << player, foodDeletes, scored, deathDelete,
                             selfDeletes, pushes, pushCalls >>
        ELSE /\ lastUpdate' = t
             /\ player' = << fed >>
             /\ foodDeletes' = foodDeletes (+) SetToBag(eaten)
             /\ scored' = scored (+) SetToBag(eaten)
             /\ deathDelete' = AddCopies(deathDelete, fed.score, calls)
             /\ selfDeletes' = selfDeletes + calls
             /\ IF ShouldPush(fed, t)
                THEN pushes' = pushes + 1 /\ pushCalls' = AddCopies(pushCalls, t, 1)
                ELSE UNCHANGED << pushes, pushCalls >>

\* gameLoop: updateGame, renderGame, requestAnimationFrame(gameLoop)
GameLoop(fd, v, boost, gap, roll) ==
  /\ UpdateGame(fd, v, boost, gap, roll)
  /\ ticks' = ticks + 1
  /\ frameRef' = TRUE
  /\ rafPending' = TRUE

\* the frame with the eaten food leaving the cache during the tick
FrameDeletingEaten(v, boost, gap, roll) ==
  /\ rafPending
  /\ GameLoop(food, v, boost, gap, roll)
  /\ food' = (IF player = <<>> \/ playerId = 0 \/ ~mounted THEN food
              ELSE [id \in DOMAIN food \ BagToSet(foodDeletes') |-> food[id]])
  /\ UNCHANGED << start, initPc, playerId, otherPlayers, leaderboard,
                  mounted, subscribed, timersOn, rosterCalls, boardCalls,
                  spawnCalls, spawned, deathInsert, cleanupCalls, deathBatches, deathFood,
                  lastBatch, gameOverCalls, gameState, finalScore >>

\* the browser runs the requested animation frame
Frame(v, boost, gap, roll) ==
  /\ rafPending
  /\ GameLoop(food, v, boost, gap, roll)
  /\ UNCHANGED << start, initPc, playerId, food, otherPlayers, leaderboard,
                  mounted, subscribed, timersOn, rosterCalls, boardCalls,
                  spawnCalls, spawned, deathInsert, cleanupCalls, deathBatches, deathFood,
                  lastBatch, gameOverCalls, gameState, finalScore >>

\* updateGame resumes after its update of the player row: lastSync = now.
\* No specification takes this step: ShouldPush is false while lastSync is
\* unset, so no update is ever awaited and pushCalls stays empty.
PushDone(t) ==
  /\ BagIn(t, pushCalls)
  /\ pushCalls' = pushCalls (-) SetToBag({t})
  /\ player' = << [player[1] EXCEPT !.lastSync = << t >>] >>
  /\ UNCHANGED << start, initPc, playerId, food, otherPlayers, leaderboard,
                  mounted, frameRef, rafPending, now, lastUpdate, subscribed,
                  timersOn, rosterCalls, boardCalls, foodDeletes, spawnCalls,
                  spawned, deathDelete, deathInsert, cleanupCalls, ticks, scored,
                  selfDeletes, pushes, deathBatches, deathFood, lastBatch,
                  gameOverCalls, gameState, finalScore >>

\* ------------------------------------------------------------ initialization
\* subscribeToChanges: the channel, the first roster and leaderboard query
\* and the two interval timers
SubscribeToChanges ==
  /\ subscribed' = TRUE
  /\ timersOn' = TRUE
  /\ rosterCalls' = rosterCalls + 1
  /\ boardCalls' = boardCalls + 1

\* the players insert returns and initializeGame goes on whatever the error
InsertPlayerDoneNoReturn(ok) ==
  /\ initPc = "insert"
  /\ initPc' = "loadFood"
  /\ IF ok
     THEN /\ playerId' = LocalId
          /\ player' = << NewPlayer(start[1], start[2]) >>
     ELSE UNCHANGED << playerId, player >>
  /\ UNCHANGED << start, food, otherPlayers, leaderboard, mounted, frameRef,
                  rafPending, now, lastUpdate, subscribed, timersOn, rosterCalls,
                  boardCalls, foodDeletes, spawnCalls, spawned, deathDelete,
                  deathInsert, cleanupCalls, pushCalls, ticks, scored,
                  selfDeletes, pushes, deathBatches, deathFood, lastBatch,
                  gameOverCalls, gameState, finalScore >>

\* the players insert of initializeGame returns
InsertPlayerDone(ok) ==
  /\ initPc = "insert"
  /\ IF ok
     THEN /\ playerId' = LocalId
          /\ player' = << NewPlayer(start[1], start[2]) >>
          /\ initPc' = "loadFood"
     ELSE /\ initPc' = "aborted"
          /\ UNCHANGED << playerId, player >>
  /\ UNCHANGED << start, food, otherPlayers, leaderboard, mounted, frameRef,
                  rafPending, now, lastUpdate, subscribed, timersOn, rosterCalls,
                  boardCalls, foodDeletes, spawnCalls, spawned, deathDelete,
                  deathInsert, cleanupCalls, pushCalls, ticks, scored,
                  selfDeletes, pushes, deathBatches, deathFood, lastBatch, gameOverCalls, gameState,
                  finalScore >>

\* the food select of loadFood returns data; with 200 rows cached loadFood
\* returns and initializeGame goes on to subscribe and start the loop
LoadFoodDone(data, v, boost, gap, roll) ==
  LET loaded == IF data # <<>> THEN data[1] ELSE food
  IN /\ initPc = "loadFood"
     /\ food' = loaded
     /\ IF Cardinality(DOMAIN loaded) < MIN_FOOD
        THEN /\ initPc' = "spawnFood"
             /\ UNCHANGED << frameRef, rafPending, now, lastUpdate, subscribed,
                             timersOn, rosterCalls, boardCalls, foodDeletes,
                             deathDelete, pushCalls, ticks, scored, selfDeletes,
                             pushes, player >>
        ELSE /\ initPc' = "started"
             /\ SubscribeToChanges
             /\ GameLoop(loaded, v, boost, gap, roll)
     /\ UNCHANGED << start, playerId, otherPlayers, leaderboard, mounted,
                     spawnCalls, spawned, deathInsert, cleanupCalls, deathBatches, deathFood,
                     lastBatch, gameOverCalls, gameState, finalScore >>

\* the food insert of loadFood's spawnFood returns data (null or the new rows):
\* the rows are cached, then initializeGame subscribes and starts the loop
SpawnFoodDone(data, v, boost, gap, roll) ==
  LET loaded == IF data # <<>> THEN SetAll(food, data[1]) ELSE food
  IN /\ initPc = "spawnFood"
     /\ food' = loaded
     /\ initPc' = "started"
     /\ SubscribeToChanges
     /\ GameLoop(loaded, v, boost, gap, roll)
     /\ UNCHANGED << start, playerId, otherPlayers, leaderboard, mounted,
                     spawnCalls, spawned, deathInsert, cleanupCalls, deathBatches, deathFood,
                     lastBatch, gameOverCalls, gameState, finalScore >>

\* ------------------------------------------------------------ food consumption
\* a row spawnFood(1) gets back: a fresh id and a random position, here one
\* out of the snake's reach
SpawnedRow(n) ==
  [id |-> 100 + n, position_x |-> U(100) + n, position_y |-> U(100), value |-> 1]

\* a checkFoodCollision callback resumes after its delete of food id: the id
\* leaves the cache and, when Math.random() < 0.5 (respawn), spawnFood(1) starts
FoodDeleteDone(id, respawn) ==
  /\ BagIn(id, foodDeletes)
  /\ foodDeletes' = foodDeletes (-) SetToBag({id})
  /\ food' = Remove(food, id)
  /\ spawnCalls' = spawnCalls + (IF respawn THEN 1 ELSE 0)
  /\ UNCHANGED << start, initPc, playerId, player, otherPlayers, leaderboard,
                  mounted, frameRef, rafPending, now, lastUpdate, subscribed,
                  timersOn, rosterCalls, boardCalls, spawned, deathDelete,
                  deathInsert, cleanupCalls, pushCalls, ticks, scored,
                  selfDeletes, pushes, deathBatches, deathFood, lastBatch,
                  gameOverCalls, gameState, finalScore >>

\* the insert of a spawnFood(1) returns: its row, if any, is cached
SpawnOneDone(ok) ==
  /\ spawnCalls > 0
  /\ spawnCalls' = spawnCalls - 1
  /\ IF ok
     THEN /\ food' = SetAll(food, [i \in {100 + spawned} |-> SpawnedRow(spawned)])
          /\ spawned' = spawned + 1
     ELSE UNCHANGED << food, spawned >>
  /\ UNCHANGED << start, initPc, playerId, player, otherPlayers, leaderboard,
                  mounted, frameRef, rafPending, now, lastUpdate, subscribed,
                  timersOn, rosterCalls, boardCalls, foodDeletes, deathDelete,
                  deathInsert, cleanupCalls, pushCalls, ticks, scored,
                  selfDeletes, pushes, deathBatches, deathFood, lastBatch,
                  gameOverCalls, gameState, finalScore >>

\* ------------------------------------------------------------ handleDeath
\* foodFromDeath: one row of value 1 per segment, jittered by j[1] on odd and
\* j[2] on even rows
FoodFromDeath(segs, j) ==
  [i \in 1..Len(segs) |->
     [position_x |-> segs[i][1] + j[1 + (i % 2)],
      position_y |-> segs[i][2] + j[2 - (i % 2)],
      value |-> 1]]

\* the end of handleDeath: cancelAnimationFrame, then onGameOver(finalScore),
\* which is App's handleGameOver
GameOver(s) ==
  /\ rafPending' = (IF frameRef THEN FALSE ELSE rafPending)
  /\ gameOverCalls' = gameOverCalls + 1
  /\ finalScore' = s
  /\ gameState' = "gameover"

\* a handleDeath call resumes after its delete of the player row: it turns
\* the segments into food and inserts the batch
DeathDeleteDone(s, j) ==
  /\ BagIn(s, deathDelete)
  /\ deathDelete' = deathDelete (-) SetToBag({s})
  /\ IF Len(player[1].segments) > 0
     THEN /\ deathInsert' = AddCopies(deathInsert, s, 1)
          /\ deathBatches' = deathBatches + 1
          /\ deathFood' = deathFood + Len(player[1].segments)
          /\ lastBatch' = FoodFromDeath(player[1].segments, j)
          /\ UNCHANGED << rafPending, gameOverCalls, finalScore, gameState >>
     ELSE /\ GameOver(s)
          /\ UNCHANGED << deathInsert, deathBatches, deathFood, lastBatch >>
  /\ UNCHANGED << start, initPc, playerId, player, food, otherPlayers,
                  leaderboard, mounted, frameRef, now, lastUpdate, subscribed,
                  timersOn, rosterCalls, boardCalls, foodDeletes, spawnCalls,
                  spawned, cleanupCalls, pushCalls, ticks, scored, selfDeletes,
                  pushes >>

\* a handleDeath call resumes after its food insert
DeathInsertDone(s) ==
  /\ BagIn(s, deathInsert)
  /\ deathInsert' = deathInsert (-) SetToBag({s})
  /\ GameOver(s)
  /\ UNCHANGED << start, initPc, playerId, player, food, otherPlayers,
                  leaderboard, mounted, frameRef, now, lastUpdate, subscribed,
                  timersOn, rosterCalls, boardCalls, foodDeletes, spawnCalls,
                  spawned, deathDelete, cleanupCalls, pushCalls, ticks, scored,
                  selfDeletes, pushes, deathBatches, deathFood, lastBatch >>

\* ------------------------------------------------------------ teardown
\* the effect's cleanup: cancelAnimationFrame, then cleanup() up to its await
\* (or to its end when there is no player id)
Teardown ==
  /\ mounted
  /\ mounted' = FALSE
  /\ rafPending' = (IF frameRef THEN FALSE ELSE rafPending)
  /\ IF playerId # 0
     THEN /\ selfDeletes' = selfDeletes + 1
          /\ cleanupCalls' = cleanupCalls + 1
          /\ UNCHANGED subscribed
     ELSE /\ subscribed' = FALSE
          /\ UNCHANGED << selfDeletes, cleanupCalls >>
  /\ UNCHANGED << start, initPc, playerId, player, food, otherPlayers,
                  leaderboard, frameRef, now, lastUpdate, timersOn, rosterCalls,
                  boardCalls, foodDeletes, spawnCalls, spawned, deathDelete,
                  deathInsert, pushCalls, ticks, scored, pushes, deathBatches,
                  deathFood, lastBatch, gameOverCalls, gameState, finalScore >>

\* cleanup resumes after its delete: removeAllChannels
CleanupDone ==
  /\ cleanupCalls > 0
  /\ cleanupCalls' = cleanupCalls - 1
  /\ subscribed' = FALSE
  /\ UNCHANGED << start, initPc, playerId, player, food, otherPlayers,
                  leaderboard, mounted, frameRef, rafPending, now, lastUpdate,
                  timersOn, rosterCalls, boardCalls, foodDeletes, spawnCalls,
                  spawned, deathDelete, deathInsert, pushCalls, ticks, scored,
                  selfDeletes, pushes, deathBatches, deathFood, lastBatch,
                  gameOverCalls, gameState, finalScore >>

\* ------------------------------------------------------------ change feed
EventTypes == { "INSERT", "UPDATE", "DELETE" }

\* the players handler without its check of the row's id
OnPlayerChangeAnyId(cache, pid, type, row) ==
  IF type = "DELETE" THEN Remove(cache, row.id)
  ELSE IF row.is_alive
       THEN SetAll(cache, [i \in {row.id} |-> row])
       ELSE cache

\* the players handler without its check of is_alive
OnPlayerChangeDeadToo(cache, pid, type, row) ==
  IF type = "DELETE" THEN Remove(cache, row.id)
  ELSE IF row.id # pid
       THEN SetAll(cache, [i \in {row.id} |-> row])
       ELSE cache

\* the players handler of the channel: the cache after the event
OnPlayerChange(cache, pid, type, row) ==
  IF type = "DELETE" THEN Remove(cache, row.id)
  ELSE IF row.id # pid /\ row.is_alive
       THEN SetAll(cache, [i \in {row.id} |-> row])
       ELSE cache

PlayerEvent(type, row) ==
  /\ subscribed
  /\ otherPlayers' = OnPlayerChange(otherPlayers, playerId, type, row)
  /\ UNCHANGED << start, initPc, playerId, player, food, leaderboard, mounted,
                  frameRef, rafPending, now, lastUpdate, subscribed, timersOn,
                  rosterCalls, boardCalls, foodDeletes, spawnCalls, spawned,
                  deathDelete, deathInsert, cleanupCalls, pushCalls, ticks,
                  scored, selfDeletes, pushes, deathBatches, deathFood,
                  lastBatch, gameOverCalls, gameState, finalScore >>

\* the food handlers of the channel: INSERT sets the row, DELETE removes the id
FoodEvent(type, row) ==
  /\ subscribed
  /\ food' = (IF type = "DELETE" THEN Remove(food, row.id)
              ELSE SetAll(food, [i \in {row.id} |-> row]))
  /\ UNCHANGED << start, initPc, playerId, player, otherPlayers, leaderboard,
                  mounted, frameRef, rafPending, now, lastUpdate, subscribed,
                  timersOn, rosterCalls, boardCalls, foodDeletes, spawnCalls,
                  spawned, deathDelete, deathInsert, cleanupCalls, pushCalls,
                  ticks, scored, selfDeletes, pushes, deathBatches, deathFood,
                  lastBatch, gameOverCalls, gameState, finalScore >>

\* ------------------------------------------------------------ polls
\* select('*').eq('is_alive', true).neq('id', pid) on table
RosterQuery(table, pid) ==
  LET rows == { r \in table : r.is_alive /\ r.id # pid }
  IN [id \in { r.id : r \in rows } |-> CHOOSE r \in rows : r.id = id]

RECURSIVE ByScore(_)
\* rows as the sequence of their ids by descending score
ByScore(rows) ==
  IF rows = {} THEN <<>>
  ELSE LET top == CHOOSE r \in rows :
                    \A q \in rows : q.score < r.score \/ (q.score = r.score /\ q.id >= r.id)
       IN << top.id >> \o ByScore(rows \ {top})

\* select('*').eq('is_alive', true).order('score', descending).limit(10)
BoardQuery(table) ==
  LET all == ByScore({ r \in table : r.is_alive })
  IN SubSeq(all, 1, Min(10, Len(all)))

\* the 5 s timer fires: loadOtherPlayers sends its query
RosterTimer ==
  /\ timersOn
  /\ rosterCalls < MaxPolls
  /\ rosterCalls' = rosterCalls + 1
  /\ UNCHANGED << start, initPc, playerId, player, food, otherPlayers,
                  leaderboard, mounted, frameRef, rafPending, now, lastUpdate,
                  subscribed, timersOn, boardCalls, foodDeletes, spawnCalls,
                  spawned, deathDelete, deathInsert, cleanupCalls, pushCalls,
                  ticks, scored, selfDeletes, pushes, deathBatches, deathFood,
                  lastBatch, gameOverCalls, gameState, finalScore >>

\* loadOtherPlayers merging its rows into the cache without clearing it
RosterDoneMerging(ok, table) ==
  /\ rosterCalls > 0
  /\ rosterCalls' = rosterCalls - 1
  /\ otherPlayers' = (IF ok THEN SetAll(otherPlayers, RosterQuery(table, playerId))
                      ELSE otherPlayers)
  /\ UNCHANGED << start, initPc, playerId, player, food, leaderboard, mounted,
                  frameRef, rafPending, now, lastUpdate, subscribed, timersOn,
                  boardCalls, foodDeletes, spawnCalls, spawned, deathDelete,
                  deathInsert, cleanupCalls, pushCalls, ticks, scored,
                  selfDeletes, pushes, deathBatches, deathFood, lastBatch,
                  gameOverCalls, gameState, finalScore >>

\* loadOtherPlayers resumes: with data (ok) the cache is cleared and refilled
RosterDone(ok, table) ==
  /\ rosterCalls > 0
  /\ rosterCalls' = rosterCalls - 1
  /\ otherPlayers' = (IF ok THEN RosterQuery(table, playerId) ELSE otherPlayers)
  /\ UNCHANGED << start, initPc, playerId, player, food, leaderboard, mounted,
                  frameRef, rafPending, now, lastUpdate, subscribed, timersOn,
                  boardCalls, foodDeletes, spawnCalls, spawned, deathDelete,
                  deathInsert, cleanupCalls, pushCalls, ticks, scored,
                  selfDeletes, pushes, deathBatches, deathFood, lastBatch,
                  gameOverCalls, gameState, finalScore >>

\* the 2 s timer fires: updateLeaderboard sends its query
BoardTimer ==
  /\ timersOn
  /\ boardCalls < MaxPolls
  /\ boardCalls' = boardCalls + 1
  /\ UNCHANGED << start, initPc, playerId, player, food, otherPlayers,
                  leaderboard, mounted, frameRef, rafPending, now, lastUpdate,
                  subscribed, timersOn, rosterCalls, foodDeletes, spawnCalls,
                  spawned, deathDelete, deathInsert, cleanupCalls, pushCalls,
                  ticks, scored, selfDeletes, pushes, deathBatches, deathFood,
                  lastBatch, gameOverCalls, gameState, finalScore >>

\* updateLeaderboard resumes: with data (ok) setLeaderboard(data)
BoardDone(ok, table) ==
  /\ boardCalls > 0
  /\ boardCalls' = boardCalls - 1
  /\ leaderboard' = (IF ok THEN BoardQuery(table) ELSE leaderboard)
  /\ UNCHANGED << start, initPc, playerId, player, food, otherPlayers, mounted,
                  frameRef, rafPending, now, lastUpdate, subscribed, timersOn,
                  rosterCalls, foodDeletes, spawnCalls, spawned, deathDelete,
                  deathInsert, cleanupCalls, pushCalls, ticks, scored,
                  selfDeletes, pushes, deathBatches, deathFood, lastBatch,
                  gameOverCalls, gameState, finalScore >>

\* ------------------------------------------------------------ App
\* handleRestart, the button of the game-over screen
HandleRestart ==
  /\ gameState = "gameover"
  /\ gameState' = "start"
  /\ finalScore' = 0
  /\ UNCHANGED << start, initPc, playerId, player, food, otherPlayers,
                  leaderboard, mounted, frameRef, rafPending, now, lastUpdate,
                  subscribed, timersOn, rosterCalls, boardCalls, foodDeletes,
                  spawnCalls, spawned, deathDelete, deathInsert, cleanupCalls,
                  pushCalls, ticks, scored, selfDeletes, pushes, deathBatches,
                  deathFood, lastBatch, gameOverCalls >>

\* handleStart, the form of the start screen: App renders a new GameCanvas,
\* which has refs of its own; the other variables keep describing the
\* GameCanvas of the session before
HandleStart ==
  /\ gameState = "start"
  /\ gameState' = "playing"
  /\ UNCHANGED << start, initPc, playerId, player, food, otherPlayers,
                  leaderboard, mounted, frameRef, rafPending, now, lastUpdate,
                  subscribed, timersOn, rosterCalls, boardCalls, foodDeletes,
                  spawnCalls, spawned, deathDelete, deathInsert, cleanupCalls,
                  pushCalls, ticks, scored, selfDeletes, pushes, deathBatches,
                  deathFood, lastBatch, gameOverCalls, finalScore >>

\* ------------------------------------------------------------ specification
InitWith(points) ==
  /\ start \in points
  /\ initPc = "insert"
  /\ playerId = 0
  /\ player = <<>>
  /\ food = NoRows
  /\ otherPlayers = NoRows
  /\ leaderboard = <<>>
  /\ mounted = TRUE
  /\ frameRef = FALSE
  /\ rafPending = FALSE
  /\ now = 0
  /\ lastUpdate = 0
  /\ subscribed = FALSE
  /\ timersOn = FALSE
  /\ rosterCalls = 0
  /\ boardCalls = 0
  /\ foodDeletes = EmptyBag
  /\ spawnCalls = 0
  /\ spawned = 0
  /\ deathDelete = EmptyBag
  /\ deathInsert = EmptyBag
  /\ cleanupCalls = 0
  /\ pushCalls = EmptyBag
  /\ ticks = 0
  /\ scored = EmptyBag
  /\ selfDeletes = 0
  /\ pushes = 0
  /\ deathBatches = 0
  /\ deathFood = 0
  /\ lastBatch = <<>>
  /\ gameOverCalls = 0
  /\ gameState = "playing"
  /\ finalScore = 0

\* the component has mounted and initializeGame awaits its players insert
Init == InitWith(StartPoints)

\* initializeGame's remote calls return; the food table is empty or the
\* select fails, and the top-up insert fails
Initialize ==
  \/ \E ok \in BOOLEAN : InsertPlayerDone(ok)
  \/ \E d \in { <<>>, << NoRows >> }, v \in Mice, b \in BOOLEAN, g \in Gaps :
       LoadFoodDone(d, v, b, g, FALSE)
  \/ \E v \in Mice, b \in BOOLEAN, g \in Gaps :
       SpawnFoodDone(<<>>, v, b, g, FALSE)

\* the frame loop
Frames ==
  \E v \in Mice, b \in BOOLEAN, g \in Gaps, r \in BOOLEAN :
    ticks < MaxTicks /\ Frame(v, b, g, r)

\* the remote calls of handleDeath return
Dying ==
  \/ \E s \in BagToSet(deathDelete), j \in Jitters : DeathDeleteDone(s, j)
  \/ \E s \in BagToSet(deathInsert) : DeathInsertDone(s)

\* the component unmounts
Unmount ==
  \/ Teardown
  \/ CleanupDone

\* the change feed delivers a players event
PlayerFeed ==
  \E type \in EventTypes, row \in PlayerRows : PlayerEvent(type, row)

\* the session with its death handling and teardown
Next ==
  \/ Initialize
  \/ Frames
  \/ Dying
  \/ Unmount
  \/ PlayerFeed

Spec == Init /\ [][Next]_vars

\* the session with the food of the remote store and its consumption
NextFood ==
  \/ InsertPlayerDone(TRUE)
  \/ \E d \in Snapshots, v \in Mice, b \in BOOLEAN, g \in Gaps :
       LoadFoodDone(d, v, b, g, FALSE)
  \/ \E v \in Mice, b \in BOOLEAN, g \in Gaps :
       SpawnFoodDone(<<>>, v, b, g, FALSE)
  \/ Frames
  \/ \E id \in BagToSet(foodDeletes), respawn \in BOOLEAN : FoodDeleteDone(id, respawn)
  \/ \E ok \in BOOLEAN : SpawnOneDone(ok)
  \/ \E type \in { "INSERT", "DELETE" }, id \in FoodIds : FoodEvent(type, FoodRow(id))

SpecFood == Init /\ [][NextFood]_vars

\* the session with the change feed, the polls and teardown; the snake
\* boosts along heading 0
NextCache ==
  \/ Initialize
  \/ \E g \in Gaps : ticks < MaxTicks /\ Frame(<< 1, 0 >>, TRUE, g, FALSE)
  \/ Unmount
  \/ PlayerFeed
  \/ \E type \in { "INSERT", "DELETE" } : FoodEvent(type, FoodRow(1))
  \/ RosterTimer
  \/ \E ok \in BOOLEAN, tb \in Tables : RosterDone(ok, tb)
  \/ BoardTimer
  \/ \E ok \in BOOLEAN, tb \in Tables : BoardDone(ok, tb)

SpecCache == Init /\ [][NextCache]_vars

\* spawn points, pointer offsets and frame gaps for the movement of the snake
MoveStartPoints ==
  { << SpawnPoint(0, WORLD_WIDTH), SpawnPoint(0, WORLD_HEIGHT) >>,
    << SpawnPoint(RandomSteps - 1, WORLD_WIDTH),
       SpawnPoint(RandomSteps \div 2, WORLD_HEIGHT) >> }

MoveMice == { << 1, 0 >>, << -1, 0 >>, << 0, 1 >>, << 3, -4 >>, << 0, 0 >> }

MoveGaps == { 17, 200, 30000 }

InitMove == InitWith(MoveStartPoints)

\* the session moving under every pointer position, boost flag and frame gap
NextMove ==
  \/ InsertPlayerDone(TRUE)
  \/ LoadFoodDone(<<>>, << 1, 0 >>, FALSE, 17, FALSE)
  \/ \E v \in MoveMice, b \in BOOLEAN, g \in MoveGaps :
       SpawnFoodDone(<<>>, v, b, g, FALSE)
  \/ \E v \in MoveMice, b \in BOOLEAN, g \in MoveGaps :
       ticks < MaxMoveTicks /\ Frame(v, b, g, FALSE)

SpecMove == InitMove /\ [][NextMove]_vars

\* the session eating the food of a snapshot laid around the head's reach,
\* the pointer held due east of the canvas centre, boosting after the first tick
NextEat ==
  \/ InsertPlayerDone(TRUE)
  \/ \E d \in EatSnapshots : LoadFoodDone(d, << 1, 0 >>, FALSE, 17, FALSE)
  \/ \E b \in BOOLEAN, g \in Gaps : SpawnFoodDone(<<>>, << 1, 0 >>, b, g, FALSE)
  \/ \E g \in Gaps, r \in BOOLEAN : ticks < MaxTicks /\ Frame(<< 1, 0 >>, TRUE, g, r)
  \/ \E id \in BagToSet(foodDeletes) : FoodDeleteDone(id, FALSE)

SpecEat == Init /\ [][NextEat]_vars

\* the session among remote players delivered by the feed
NextHit ==
  \/ InsertPlayerDone(TRUE)
  \/ LoadFoodDone(<<>>, << 1, 0 >>, FALSE, 17, FALSE)
  \/ \E v \in Mice, b \in BOOLEAN, g \in Gaps :
       SpawnFoodDone(<<>>, v, b, g, FALSE)
  \/ Frames
  \/ \E type \in EventTypes, row \in HitRows : PlayerEvent(type, row)

SpecHit == Init /\ [][NextHit]_vars

\* the session alone in the world, the pointer held due east of the canvas
\* centre, never boosting, with food events far from the snake
NextStraight ==
  \/ InsertPlayerDone(TRUE)
  \/ \E d \in { <<>>, << NoRows >> }, g \in StraightGaps :
       LoadFoodDone(d, << 1, 0 >>, FALSE, g, FALSE)
  \/ \E g \in StraightGaps : SpawnFoodDone(<<>>, << 1, 0 >>, FALSE, g, FALSE)
  \/ \E g \in StraightGaps : ticks < MaxTicks /\ Frame(<< 1, 0 >>, FALSE, g, FALSE)
  \/ \E type \in { "INSERT", "DELETE" }, n \in 0..2 : FoodEvent(type, SpawnedRow(n))

SpecStraight == Init /\ [][NextStraight]_vars

\* the session under App: GameCanvas is unmounted when the screen leaves
\* 'playing', and the screens that follow take the player's clicks
NextApp ==
  \/ Initialize
  \/ Frames
  \/ Dying
  \/ gameState # "playing" /\ Teardown
  \/ CleanupDone
  \/ HandleRestart
  \/ HandleStart

SpecApp == Init /\ [][NextApp]_vars

\* ------------------------------------------------------------ claims
\* a frame ran updateGame's simulation step in this step
Stepped == ticks' > ticks /\ player # <<>> /\ player' # player

\* C1 as claimed: onGameOver is invoked at most once per session
C1_GameOverAtMostOnce == gameOverCalls <= 1

\* C2 as claimed: the delete of the local player row is issued at most once
\* per session, by death handling or by teardown and never by both
C2_SelfDeleteAtMostOnce == selfDeletes <= 1

\* C3 as claimed: for every food id the score is raised at most once
C3_ScoredAtMostOnce ==
  \A id \in BagToSet(scored) : CopiesIn(id, scored) <= 1

\* C4: the remote-player cache never has an entry keyed by the local id, and
\* a players event whose row has the local id leaves the cache unchanged
C4_CacheExcludesLocal ==
  /\ [](playerId \notin DOMAIN otherPlayers)
  /\ [][\A type \in EventTypes, row \in PlayerRows :
          (row.id = playerId /\ PlayerEvent(type, row)) =>
            otherPlayers' = otherPlayers]_vars

\* C4 witness: with the local id set, the feed or a poll has cached player 2
\* and the first roster poll has returned
C4_Witness ==
  /\ playerId = LocalId
  /\ 2 \in DOMAIN otherPlayers
  /\ rosterCalls = 0

\* C5 as claimed: a tick that runs the simulation step pushes the local
\* record when no push was made before or the last one is over 100 ms old
C5_TickPushesWhenDue ==
  [][(/\ Stepped
      /\ pushCalls = EmptyBag
      /\ \/ player[1].lastSync = <<>>
         \/ now' - player[1].lastSync[1] > SYNC_INTERVAL)
       => pushes' = pushes + 1]_vars

\* C6 as claimed: once teardown has been called no tick runs and neither
\* cache changes
C6_QuietAfterTeardown ==
  [][~mounted =>
       /\ ticks' = ticks
       /\ food' = food
       /\ otherPlayers' = otherPlayers]_vars

\* the part of C6 about the caches alone
C6_CachesQuietAfterTeardown ==
  [][~mounted => food' = food /\ otherPlayers' = otherPlayers]_vars

\* C7: after initialization and after every tick the local position lies in
\* [50, WORLD_WIDTH - 50] x [50, WORLD_HEIGHT - 50]
C7_PositionClamped ==
  player # <<>> =>
    /\ U(50) <= player[1].position_x
    /\ player[1].position_x <= U(WORLD_WIDTH) - U(50)
    /\ U(50) <= player[1].position_y
    /\ player[1].position_y <= U(WORLD_HEIGHT) - U(50)

\* C7 witness: a tick has left the head on the east wall's inset and another
\* one on the north wall's inset
C7_Witness ==
  /\ ticks > 1
  /\ player[1].position_x = U(WORLD_WIDTH) - U(50)
  /\ player[1].position_y = U(50)

\* C8 as claimed: in every tick segment k >= 1 ends where the relaxation rule
\* puts it for P the new position of segment k - 1 and C the old position of
\* segment k itself
C8_PulledFromOwnOldPosition ==
  [][Stepped =>
       \A k \in 2..Len(player'[1].segments) :
         player'[1].segments[k] =
           Pull(player'[1].segments[k - 1], player[1].segments[k])]_vars

\* C9 as claimed: death turns the N segments into exactly N food rows of
\* value 1, in one batch insert for the session, row i within 10 units of
\* segment i on each axis
C9_OneBatchOfSegments ==
  /\ [](deathBatches <= 1)
  /\ [](deathFood = deathBatches * INITIAL_SNAKE_LENGTH)
  /\ [][deathBatches' > deathBatches =>
          /\ Len(lastBatch') = Len(player[1].segments)
          /\ \A i \in 1..Len(lastBatch') :
               /\ lastBatch'[i].value = 1
               /\ Abs(lastBatch'[i].position_x - player[1].segments[i][1]) <= U(10)
               /\ Abs(lastBatch'[i].position_y - player[1].segments[i][2]) <= U(10)]_vars

\* C10: when the players insert has failed the local id stays unset, no food
\* is cached, no channel, timer or query is opened, and no frame ever runs
C10_AbortedSessionIsInert ==
  (initPc # "insert" /\ playerId = 0) =>
    /\ initPc = "aborted"
    /\ player = <<>>
    /\ food = NoRows
    /\ ~subscribed
    /\ ~timersOn
    /\ rosterCalls = 0
    /\ boardCalls = 0
    /\ ~frameRef
    /\ ~rafPending
    /\ ticks = 0
    /\ selfDeletes = 0

\* C10 witness: the insert has failed and the component has been unmounted
C10_Witness == initPc = "aborted" /\ ~mounted

\* C11 as claimed: the entity exists before food is pulled, the subscription
\* opens only when food is loaded and topped up, and when the first tick runs
\* the subscription was already open and the first roster and leaderboard
\* queries have returned
C11_InitializationOrder ==
  /\ [](initPc \in { "loadFood", "spawnFood", "started" } => playerId # 0)
  /\ [](subscribed => initPc = "started")
  /\ [][(ticks = 0 /\ ticks' > 0) =>
          timersOn /\ rosterCalls = 0 /\ boardCalls = 0]_vars

\* dist < 15 + 0.1 * score for dx, dy and the score sb in tenths
WithinReach(dx, dy, sb) ==
  /\ Abs(dx) * 10 < 1500 + sb
  /\ Abs(dy) * 10 < 1500 + sb
  /\ 100 * (dx * dx + dy * dy) < (1500 + sb) * (1500 + sb)

\* C12: at score 10 food at 16.00 units is out of reach and food at 15.99 is
\* within; in every tick, for sb the score after the boost cost, the score
\* is raised for exactly the cached food closer than 15 + 0.1 * sb to the new
\* head, by the sum of their values
C12_ConsumedIffWithinReach ==
  /\ [](/\ ~CloserAt(1600, 0, HeadRadiusM(U(10)) + 5000, 100)
        /\ CloserAt(1599, 0, HeadRadiusM(U(10)) + 5000, 100))
  /\ [][Stepped =>
          \E sb \in { player[1].score,
                      Max(U(INITIAL_SNAKE_LENGTH), player[1].score - 1) } :
            LET eatenNow == BagToSet(scored' (-) scored)
            IN /\ eatenNow \subseteq DOMAIN food'
               /\ \A id \in DOMAIN food' :
                    id \in eatenNow <=>
                      WithinReach(player'[1].position_x - food'[id].position_x,
                                  player'[1].position_y - food'[id].position_y, sb)
               /\ player'[1].score = sb + U(SumValue(food', eatenNow))]_vars

\* C12 witness: the first tick has consumed the two foods just inside the
\* reach, not the two on and just outside it, and the score went from 22 to 24
C12_Witness ==
  /\ ticks = 1
  /\ BagToSet(scored) = { 2, 4 }
  /\ DOMAIN food = 1..4
  /\ player[1].score = U(24)

\* C13: the inserted record has INITIAL_SNAKE_LENGTH segments, segment i at
\* (startX - i * SEGMENT_SPACING, startY), score INITIAL_SNAKE_LENGTH and
\* heading 0, and the spawn point is 500 units or more from every edge
C13_InitialChain ==
  (player # <<>> /\ ticks = 0) =>
    /\ Len(player[1].segments) = INITIAL_SNAKE_LENGTH
    /\ \A i \in 0..(INITIAL_SNAKE_LENGTH - 1) :
         player[1].segments[i + 1] = << start[1] - i * U(SEGMENT_SPACING), start[2] >>
    /\ player[1].score = U(INITIAL_SNAKE_LENGTH)
    /\ player[1].angle = << 1000, 0 >>
    /\ player[1].position_x = start[1] /\ player[1].position_y = start[2]
    /\ U(500) <= start[1] /\ start[1] <= U(WORLD_WIDTH) - U(500)
    /\ U(500) <= start[2] /\ start[2] <= U(WORLD_HEIGHT) - U(500)

\* C13 witness: the insert has returned for the spawn point nearest the east edge
C13_Witness ==
  /\ player # <<>>
  /\ ticks = 0
  /\ start[1] = U(WORLD_WIDTH) - U(500) - 1

\* a tick of this session has called handleDeath
Dead == deathDelete # EmptyBag \/ deathInsert # EmptyBag \/ gameOverCalls > 0

\* C14 as claimed: once a tick has triggered death no later tick changes the
\* local record, consumes food or starts death handling
C14_DeathIsTerminal ==
  [][(Dead /\ ticks' > ticks) =>
       /\ player' = player
       /\ scored' = scored
       /\ selfDeletes' = selfDeletes]_vars

\* C15 as claimed: one tick starts death handling at most once
C15_OneDeathPerTick ==
  [][ticks' > ticks => selfDeletes' <= selfDeletes + 1]_vars

\* C17 as claimed: no food id is in the local cache while its delete is in
\* flight, and a returned delete leaves its id out of the cache
C17_CachedOrBeingDeleted ==
  /\ [](\A id \in BagToSet(foodDeletes) : id \notin DOMAIN food)
  /\ [][\A id \in BagToSet(foodDeletes) :
          CopiesIn(id, foodDeletes') < CopiesIn(id, foodDeletes) =>
            id \notin DOMAIN food']_vars

\* C18 as claimed, in its final form: when the component is unmounted and
\* initialization is over, or death has been reported, a delete of the
\* created row has been issued
C18_CreatedRowIsDeleted ==
  /\ (~mounted /\ initPc = "started" /\ playerId # 0) => selfDeletes > 0
  /\ (gameOverCalls > 0) => selfDeletes > 0

\* dist < lim for dx, dy in tenths and lim in thousandths of a unit
Overlap(dx, dy, lim) ==
  /\ Abs(dx) * 100 < lim
  /\ Abs(dy) * 100 < lim
  /\ 10000 * (dx * dx + dy * dy) < lim * lim

\* C19: a tick starts death handling exactly when the new head overlaps a
\* segment of index >= 1 of a cached player, with radius sum
\* (10 + 0.1 * score) + (8 + 0.08 * otherScore), or an own segment of index
\* >= 3, within 10 + 0.1 * score
C19_DeathIffBodyOverlap ==
  [][Stepped =>
       LET p == player'[1]
           byOther ==
             \E id \in DOMAIN otherPlayers :
               \E i \in 1..(Len(otherPlayers[id].segments) - 1) :
                 Overlap(p.position_x - otherPlayers[id].segments[i + 1][1],
                         p.position_y - otherPlayers[id].segments[i + 1][2],
                         (10000 + 10 * p.score) + (8000 + 8 * otherPlayers[id].score))
           bySelf ==
             \E i \in 3..(Len(p.segments) - 1) :
               Overlap(p.position_x - p.segments[i + 1][1],
                       p.position_y - p.segments[i + 1][2], 10000 + 10 * p.score)
       IN (selfDeletes' > selfDeletes) <=> (byOther \/ bySelf)]_vars

\* C19 witness: three boosted ticks due east, the head of player 3 within
\* reach all along, and death started once, when the head reached its body
C19_Witness ==
  /\ ticks = 3
  /\ DOMAIN otherPlayers = { 3 }
  /\ player[1].position_x = start[1] + 3 * Speed(TRUE, 17)
  /\ selfDeletes = 1

\* C20 as claimed: alone in the world, moving due east at base speed from the
\* initial chain, the snake never starts death handling
C20_StraightNeverDies ==
  otherPlayers = NoRows => (selfDeletes = 0 /\ deathDelete = EmptyBag)

\* C21: a step in which a tick runs leaves the remote-player cache as it was
\* and, once initialization is over, the food cache too; so a step that
\* writes a cache is a callback between ticks
C21_CachesStableInTick ==
  [][ticks' > ticks =>
       /\ otherPlayers' = otherPlayers
       /\ initPc = "started" => food' = food]_vars

\* C21 witness: two ticks have run with food 1 and player 2 cached, food 1
\* was eaten and is still cached while its delete is in flight
C21_Witness ==
  /\ ticks >= 2
  /\ 1 \in DOMAIN food
  /\ BagIn(1, foodDeletes)
  /\ 2 \in DOMAIN otherPlayers

\* C22: a roster poll that returns data leaves in the cache exactly the alive
\* rows of the table other than the local one, and a poll without data leaves
\* the cache unchanged
C22_RosterReplacesCache ==
  [][\A ok \in BOOLEAN, tb \in Tables :
       RosterDone(ok, tb) =>
         IF ok
         THEN /\ DOMAIN otherPlayers' = { r.id : r \in { q \in tb : q.is_alive /\ q.id # playerId } }
              /\ \A id \in DOMAIN otherPlayers' : otherPlayers'[id] \in tb
         ELSE otherPlayers' = otherPlayers]_vars

\* C22 witness: with the channel closed and no poll in flight, the cache holds
\* player 2 and nothing else
C22_Witness ==
  /\ ~subscribed
  /\ timersOn
  /\ rosterCalls = 0
  /\ DOMAIN otherPlayers = { 2 }

\* C23: an INSERT or UPDATE event of a row that is not alive leaves the
\* cache unchanged, and every entry an event puts in the cache is alive
C23_DeadRowsStayOut ==
  [][\A type \in { "INSERT", "UPDATE" }, row \in PlayerRows :
       PlayerEvent(type, row) =>
         /\ ~row.is_alive => otherPlayers' = otherPlayers
         /\ \A id \in DOMAIN otherPlayers' :
              (id \notin DOMAIN otherPlayers \/ otherPlayers'[id] # otherPlayers[id])
                => otherPlayers'[id].is_alive]_vars

\* C23 witness: the channel is open and the feed has cached player 2, alive,
\* while the first roster poll is still in flight
C23_Witness ==
  /\ subscribed
  /\ ticks = 1
  /\ rosterCalls = 1
  /\ DOMAIN otherPlayers = { 2 }
  /\ otherPlayers[2].is_alive

\* C24: the score is never below INITIAL_SNAKE_LENGTH; a tick lowers it by
\* 0.1 at most, and only from above INITIAL_SNAKE_LENGTH and when the head
\* was moved at boost speed
C24_ScoreFloor ==
  /\ [](player # <<>> => player[1].score >= U(INITIAL_SNAKE_LENGTH))
  /\ [][Stepped =>
          /\ player'[1].score >= player[1].score - 1
          /\ player'[1].score < player[1].score =>
               /\ player[1].score > U(INITIAL_SNAKE_LENGTH)
               /\ Abs(player'[1].position_x - player[1].position_x)
                    = Speed(TRUE, now' - lastUpdate)]_vars

\* C24 witness: food was eaten and a boosted tick has taken 0.1 off the score
C24_Witness ==
  /\ player # <<>>
  /\ player[1].score % 10 = 9
  /\ scored # EmptyBag

\* C25: after every tick consecutive segments of the chain are at most
\* SEGMENT_SPACING apart, to the rounding of the fixed-point arithmetic: Pull
\* rounds dist to a tenth (under 0.05 units along the pull) and each
\* coordinate of the pulled point to a tenth (under 0.08 units), 0.2 in all
C25_ChainSpacing ==
  (player # <<>> /\ ticks > 0) =>
    \A k \in 1..(Len(player[1].segments) - 1) :
      ~Farther(player[1].segments[k][1] - player[1].segments[k + 1][1],
               player[1].segments[k][2] - player[1].segments[k + 1][2],
               U(SEGMENT_SPACING) + 2)

\* C25 witness: two ticks have carried the head over 1000 units from the
\* spawn point on each axis
C25_Witness ==
  /\ ticks = 2
  /\ Abs(player[1].position_x - start[1]) > U(1000)
  /\ Abs(player[1].position_y - start[2]) > U(1000)

\* C26: the chain never has fewer than INITIAL_SNAKE_LENGTH segments and no
\* step shortens it
C26_ChainLength ==
  /\ [](player # <<>> => Len(player[1].segments) >= INITIAL_SNAKE_LENGTH)
  /\ [][(player # <<>> /\ player' # <<>>) =>
          Len(player'[1].segments) >= Len(player[1].segments)]_vars

\* C26 witness: three ticks have run and the score has risen to 24 or more
C26_Witness ==
  /\ ticks = 3
  /\ player[1].score >= U(24)
  /\ Len(player[1].segments) = INITIAL_SNAKE_LENGTH

\* C27 as claimed: the screen enters 'gameover' from 'playing' only, and an
\* onGameOver call of a session that has already reported its end changes
\* neither the screen nor the final score shown
C27_GameOverFromPlayingOnly ==
  /\ [][(gameState' = "gameover" /\ gameState # "gameover") =>
          gameState = "playing"]_vars
  /\ [][(gameOverCalls' > gameOverCalls /\ gameOverCalls >= 1) =>
          (gameState' = gameState /\ finalScore' = finalScore)]_vars

====
